---- MODULE Spec2Model ----
(***************************************************************************)
(* Model of src/src/vector.rs: the fixed-dimension Vector<T, N> value type *)
(* and its operation set.                                                  *)
(*                                                                         *)
(* The element type T is generic in the source.  The model instantiates it *)
(* with i8 (the narrowest type satisfying `Signed + Into<f32>`) and with   *)
(* f32.  i8 arithmetic keeps its width: an overflowing operation wraps in  *)
(* a build without overflow checks and panics in a build with them, and    *)
(* the build is chosen nondeterministically in Init.  f32 arithmetic is    *)
(* IEEE-754 binary32 round-to-nearest-even on finite normal values, held   *)
(* as [m, e] (value m * 2^e, m odd or zero).                               *)
(*                                                                         *)
(* A caller's frame holds two vector variables, u and v.  Each action but *)
(* Continue is one call of the library on them; `outcome` records the     *)
(* call, its arguments and what it produced, until the caller goes on     *)
(* (Continue).  A panic ends the program: no action is enabled after it.  *)
(***************************************************************************)
EXTENDS Integers, Sequences, FiniteSets, TLC

VARIABLES T, overflow_checks, u, v, outcome

vars == <<T, overflow_checks, u, v, outcome>>

(***************************************************************************)
(* Bounds of the model.                                                    *)
(***************************************************************************)
\* Vectors of every dimension 0..MaxDim are modelled, and dimension
\* CROSS_DIM, on which cross is defined.
MaxDim == 2
\* linear_combination is called with lists of at most MaxLen entries.
MaxLen == 2

(***************************************************************************)
(* Results of a call: a returned value or a panic.                         *)
(***************************************************************************)
Ret(x) == [ok |-> TRUE, val |-> x]
Panic == [ok |-> FALSE, val |-> <<>>]

(***************************************************************************)
(* f32: IEEE-754 binary32, round to nearest, ties to even.                 *)
(***************************************************************************)
F32_MANTISSA_DIGITS == 24

RECURSIVE BitLen(_)
BitLen(a) == IF a = 0 THEN 0 ELSE 1 + BitLen(a \div 2)

Abs(n) == IF n < 0 THEN -n ELSE n
Sgn(n) == IF n < 0 THEN -1 ELSE 1

\* The unique representation of m * 2^e with m odd (or zero).
RECURSIVE Canon(_, _)
Canon(m, e) ==
    IF m = 0 THEN [m |-> 0, e |-> 0]
    ELSE IF m % 2 = 0 THEN Canon(m \div 2, e + 1)
    ELSE [m |-> m, e |-> e]

\* sign * (a + f) * 2^e rounded to 24 significant bits, where 0 < f < 1
\* if sticky and f = 0 otherwise.
FRound(sign, a, e, sticky) ==
    LET b == BitLen(a) IN
    IF b <= F32_MANTISSA_DIGITS THEN Canon(sign * a, e)
    ELSE LET s == b - F32_MANTISSA_DIGITS
             q == 2^s
             hi == a \div q
             r == a % q
             half == q \div 2
             up == (r > half) \/ (r = half /\ (sticky \/ hi % 2 = 1))
         IN Canon(sign * (IF up THEN hi + 1 ELSE hi), e + s)

FNeg(x) == [m |-> -x.m, e |-> x.e]
FAbs(x) == [m |-> Abs(x.m), e |-> x.e]

\* X + Y for X.e >= Y.e, both non-zero.  When the exact sum does not fit
\* the integers of the checker, Y is shifted right and its lost bits are
\* kept as a sticky bit.
FAddAligned(X, Y) ==
    LET d == X.e - Y.e
        bX == BitLen(Abs(X.m))
    IN IF bX + d <= 29
       THEN LET n == X.m * 2^d + Y.m IN FRound(Sgn(n), Abs(n), Y.e, FALSE)
       ELSE LET g == 29 - bX
                sh == d - g
                far == sh >= F32_MANTISSA_DIGITS
                yq == IF far THEN 0 ELSE Abs(Y.m) \div 2^sh
                sticky == IF far THEN TRUE ELSE Abs(Y.m) % 2^sh # 0
                big == Abs(X.m) * 2^g
                S == IF Sgn(X.m) = Sgn(Y.m) THEN big + yq
                     ELSE IF sticky THEN big - yq - 1 ELSE big - yq
            IN FRound(Sgn(X.m), S, X.e - g, sticky)

FAdd(x, y) ==
    IF x.m = 0 THEN y
    ELSE IF y.m = 0 THEN x
    ELSE IF x.e >= y.e THEN FAddAligned(x, y) ELSE FAddAligned(y, x)

FSub(x, y) == FAdd(x, FNeg(y))

\* x * y: the 48-bit product of the mantissas is formed from 12-bit halves.
FMul(x, y) ==
    LET a == Abs(x.m)
        b == Abs(y.m)
        sign == Sgn(x.m) * Sgn(y.m)
        e == x.e + y.e
        a1 == a \div 4096
        a0 == a % 4096
        b1 == b \div 4096
        b0 == b % 4096
        p2 == a1 * b1
        p1 == a1 * b0 + a0 * b1
        p0 == a0 * b0
        lo == p0 + (p1 % 4096) * 4096
        hi == p2 + (p1 \div 4096) + (lo \div 16777216)
        lo24 == lo % 16777216
        bh == BitLen(hi)
    IN IF a = 0 \/ b = 0 THEN [m |-> 0, e |-> 0]
       ELSE IF hi = 0 THEN FRound(sign, lo24, e, FALSE)
       ELSE LET keep == IF bh <= 24 THEN hi * 2^(24 - bh) + (lo24 \div 2^bh)
                        ELSE hi \div 2
                rem == IF bh <= 24 THEN lo24 % 2^bh
                       ELSE (hi % 2) * 16777216 + lo24
                half == 2^(bh - 1)
                up == (rem > half) \/ (rem = half /\ keep % 2 = 1)
            IN Canon(sign * (IF up THEN keep + 1 ELSE keep), e + bh)

FLess(x, y) == FSub(x, y).m < 0
\* f32::max on two numbers.
FMax(x, y) == IF FLess(x, y) THEN y ELSE x
\* An integer of fewer than 25 bits is an f32 exactly.
FFromInt(n) == Canon(n, 0)

(***************************************************************************)
(* The element type T and its arithmetic.                                  *)
(***************************************************************************)
I8_BITS == 8
MinT == -(2^(I8_BITS - 1))
MaxT == 2^(I8_BITS - 1) - 1

Wrap(n) == ((n + 2^(I8_BITS - 1)) % 2^I8_BITS) - 2^(I8_BITS - 1)

\* The outcome of an i8 operation whose exact result is n.
Checked(n) ==
    IF n >= MinT /\ n <= MaxT THEN Ret(n)
    ELSE IF overflow_checks THEN Panic
    ELSE Ret(Wrap(n))

TAdd(x, y) == IF T = "i8" THEN Checked(x + y) ELSE Ret(FAdd(x, y))
TSub(x, y) == IF T = "i8" THEN Checked(x - y) ELSE Ret(FSub(x, y))
TMul(x, y) == IF T = "i8" THEN Checked(x * y) ELSE Ret(FMul(x, y))
TNeg(x) == IF T = "i8" THEN Checked(-x) ELSE Ret(FNeg(x))
\* num::Signed::abs
TAbs(x) ==
    IF T = "i8" THEN (IF x < 0 THEN TNeg(x) ELSE Ret(x))
    ELSE Ret(FAbs(x))
\* Into<f32>
ToF32(x) == IF T = "i8" THEN FFromInt(x) ELSE x
\* T::default()
Default == IF T = "i8" THEN 0 ELSE FFromInt(0)
\* The element of T with integer value n.
Lit(n) == IF T = "i8" THEN n ELSE FFromInt(n)

(***************************************************************************)
(* Inputs.                                                                 *)
(***************************************************************************)
CROSS_DIM == 3
Dims == (0..MaxDim) \cup {CROSS_DIM}
ElemTypes == {"i8", "f32"}
Elems == IF T = "i8" THEN {MinT, 1, MaxT}
         ELSE {FFromInt(-1), FFromInt(1), FFromInt(2^F32_MANTISSA_DIGITS)}
Scalars == {Lit(-1), Lit(1), Lit(2)}
Vectors(n) == [1..n -> Elems]
Half == [m |-> 1, e |-> -1]
LerpFactors == {FFromInt(0), Half, FFromInt(1)}

(***************************************************************************)
(* Vector<T, N>: a vector is the sequence `data`; N is its length.         *)
(***************************************************************************)
\* Vector::new and From<[T; N]>::from
New(data) == Ret(data)

\* Index::index with the bound test off by one (i <= N): the read one past
\* the end yields a value.
Index_OffByOne(self, i) ==
    IF i < Len(self) THEN Ret(self[i + 1])
    ELSE IF i = Len(self) THEN Ret(Default)
    ELSE Panic

\* Index::index (i is zero-based)
Index(self, i) ==
    IF i < Len(self) THEN Ret(self[i + 1]) ELSE Panic

\* IndexMut::index_mut handing out the first element whatever the index
IndexMut_FirstElement(self, i, x) ==
    IF i < Len(self) THEN Ret([self EXCEPT ![1] = x]) ELSE Panic

\* IndexMut::index_mut followed by the store through the reference
IndexMut(self, i, x) ==
    IF i < Len(self) THEN Ret([self EXCEPT ![i + 1] = x]) ELSE Panic

\* Display::fmt
RECURSIVE FmtLoop(_, _, _)
FmtLoop(self, f, i) ==
    IF i >= Len(self) THEN Ret(f \o "]")
    ELSE LET e == Index(self, i)
             g == IF i # 0 THEN f \o ", " ELSE f
         IN IF ~e.ok THEN Panic ELSE FmtLoop(self, g \o ToString(e.val), i + 1)

Fmt(self) == FmtLoop(self, "[", 0)

\* result[i] = s, the store that ends the body of the three operator loops
Store(result, i, s) ==
    IF ~s.ok THEN Panic ELSE IndexMut(result, i, s.val)

\* Add::add reading the operand at a fixed index: result[i] + v[0]
RECURSIVE AddLoop_FirstOperand(_, _, _)
AddLoop_FirstOperand(result, w, i) ==
    IF i >= Len(result) THEN Ret(result)
    ELSE LET r == Index(result, i)
             x == Index(w, 0)
             s == IF r.ok /\ x.ok THEN TAdd(r.val, x.val) ELSE Panic
             m == Store(result, i, s)
         IN IF ~m.ok THEN Panic ELSE AddLoop_FirstOperand(m.val, w, i + 1)

\* Add::add
RECURSIVE AddLoop(_, _, _)
AddLoop(result, w, i) ==
    IF i >= Len(result) THEN Ret(result)
    ELSE LET r == Index(result, i)
             x == Index(w, i)
             s == IF r.ok /\ x.ok THEN TAdd(r.val, x.val) ELSE Panic
             m == Store(result, i, s)
         IN IF ~m.ok THEN Panic ELSE AddLoop(m.val, w, i + 1)

Add(self, w) == AddLoop(self, w, 0)

\* Sub::sub with the operands of the subtraction swapped: v[i] - result[i]
RECURSIVE SubLoop_Swapped(_, _, _)
SubLoop_Swapped(result, w, i) ==
    IF i >= Len(result) THEN Ret(result)
    ELSE LET r == Index(result, i)
             x == Index(w, i)
             s == IF r.ok /\ x.ok THEN TSub(x.val, r.val) ELSE Panic
             m == Store(result, i, s)
         IN IF ~m.ok THEN Panic ELSE SubLoop_Swapped(m.val, w, i + 1)

\* Sub::sub
RECURSIVE SubLoop(_, _, _)
SubLoop(result, w, i) ==
    IF i >= Len(result) THEN Ret(result)
    ELSE LET r == Index(result, i)
             x == Index(w, i)
             s == IF r.ok /\ x.ok THEN TSub(r.val, x.val) ELSE Panic
             m == Store(result, i, s)
         IN IF ~m.ok THEN Panic ELSE SubLoop(m.val, w, i + 1)

Sub(self, w) == SubLoop(self, w, 0)

\* Mul<T>::mul
RECURSIVE MulLoop(_, _, _)
MulLoop(result, scalar, i) ==
    IF i >= Len(result) THEN Ret(result)
    ELSE LET r == Index(result, i)
             s == IF r.ok THEN TMul(r.val, scalar) ELSE Panic
             m == Store(result, i, s)
         IN IF ~m.ok THEN Panic ELSE MulLoop(m.val, scalar, i + 1)

Mul(self, scalar) == MulLoop(self, scalar, 0)

\* PartialEq::eq: self.data == vector.data
Eq(self, vector) ==
    Ret(\A i \in 1..Len(self) : self[i] = vector[i])

\* Vector::dot: zip, then fold(0., |sum, (x, y)| sum + x.into() * y.into())
RECURSIVE DotFold(_, _, _, _)
DotFold(self, vector, sum, k) ==
    IF k > Len(self) \/ k > Len(vector) THEN Ret(sum)
    ELSE DotFold(self, vector,
                 FAdd(sum, FMul(ToF32(self[k]), ToF32(vector[k]))), k + 1)

Dot(self, vector) == DotFold(self, vector, FFromInt(0), 1)

\* Vector::norm_1: fold(0., |sum, x| sum + x.abs().into())
RECURSIVE Norm1Fold(_, _, _)
Norm1Fold(self, sum, k) ==
    IF k > Len(self) THEN Ret(sum)
    ELSE LET a == TAbs(self[k])
         IN IF ~a.ok THEN Panic
            ELSE Norm1Fold(self, FAdd(sum, ToF32(a.val)), k + 1)

Norm1(self) == Norm1Fold(self, FFromInt(0), 1)

\* Vector::norm: fold(0., |sum, x| sum + x.abs().into().powf(2.)).powf(0.5)
\* The square root is kept symbolic: the value is sqrt(sqrt_of).
RECURSIVE NormFold(_, _, _)
NormFold(self, sum, k) ==
    IF k > Len(self) THEN Ret([sqrt_of |-> sum])
    ELSE LET a == TAbs(self[k])
         IN IF ~a.ok THEN Panic
            ELSE NormFold(self,
                          FAdd(sum, FMul(ToF32(a.val), ToF32(a.val))), k + 1)

Norm(self) == NormFold(self, FFromInt(0), 1)

\* Vector::norm_inf: fold(0., |sum, x| f32::max(sum, x.abs().into()))
RECURSIVE NormInfFold(_, _, _)
NormInfFold(self, sum, k) ==
    IF k > Len(self) THEN Ret(sum)
    ELSE LET a == TAbs(self[k])
         IN IF ~a.ok THEN Panic
            ELSE NormInfFold(self, FMax(sum, ToF32(a.val)), k + 1)

NormInf(self) == NormInfFold(self, FFromInt(0), 1)

\* Vector::cosine: dot / (|u| * |v|).  The quotient is kept symbolic; a zero
\* denominator gives NaN or an infinity by the f32 division, never a panic.
Cosine(self, w) ==
    LET dot_product == Dot(self, w)
        u_length == Norm(self)
        v_length == Norm(w)
    IN IF ~dot_product.ok \/ ~u_length.ok \/ ~v_length.ok THEN Panic
       ELSE Ret([num |-> dot_product.val,
                 den |-> <<u_length.val, v_length.val>>])

\* self[i] * w[j]
MulAt(self, i, w, j) ==
    LET x == Index(self, i)
        y == Index(w, j)
    IN IF x.ok /\ y.ok THEN TMul(x.val, y.val) ELSE Panic

\* self[i] * w[j] - self[j] * w[i]
CrossAt(self, w, i, j) ==
    LET p == MulAt(self, i, w, j)
        q == MulAt(self, j, w, i)
    IN IF p.ok /\ q.ok THEN TSub(p.val, q.val) ELSE Panic

\* Vector::cross with the two products of the middle component exchanged
Cross_MiddleSign(self, w) ==
    LET c0 == CrossAt(self, w, 1, 2)
        c1 == CrossAt(self, w, 0, 2)
        c2 == CrossAt(self, w, 0, 1)
    IN IF c0.ok /\ c1.ok /\ c2.ok THEN Ret(<<c0.val, c1.val, c2.val>>)
       ELSE Panic

\* Vector::cross
Cross(self, w) ==
    LET c0 == CrossAt(self, w, 1, 2)
        c1 == CrossAt(self, w, 2, 0)
        c2 == CrossAt(self, w, 0, 1)
    IN IF c0.ok /\ c1.ok /\ c2.ok THEN Ret(<<c0.val, c1.val, c2.val>>)
       ELSE Panic

\* lerp on vectors of f32: x + (y - x) * t
Lerp(x, y, t) ==
    LET d == Sub(y, x)
        s == IF d.ok THEN Mul(d.val, t) ELSE Panic
    IN IF s.ok THEN Add(x, s.val) ELSE Panic

\* The inner zip without the scalar: *res = *res + v
RECURSIVE AxpyLoop_Unscaled(_, _, _, _)
AxpyLoop_Unscaled(result, scalar, vector, k) ==
    IF k > Len(result) \/ k > Len(vector) THEN Ret(result)
    ELSE LET s == TAdd(result[k], vector[k])
         IN IF ~s.ok THEN Panic
            ELSE AxpyLoop_Unscaled([result EXCEPT ![k] = s.val],
                                   scalar, vector, k + 1)

\* linear_combination, the inner zip: *res = *res + scalar * v
RECURSIVE AxpyLoop(_, _, _, _)
AxpyLoop(result, scalar, vector, k) ==
    IF k > Len(result) \/ k > Len(vector) THEN Ret(result)
    ELSE LET p == TMul(scalar, vector[k])
             s == IF p.ok THEN TAdd(result[k], p.val) ELSE Panic
         IN IF ~s.ok THEN Panic
            ELSE AxpyLoop([result EXCEPT ![k] = s.val], scalar, vector, k + 1)

\* linear_combination, the outer zip over (scalar, vector)
RECURSIVE CombineLoop(_, _, _, _)
CombineLoop(result, vectors, scalars, i) ==
    IF i > Len(scalars) \/ i > Len(vectors) THEN Ret(result)
    ELSE LET r == AxpyLoop(result, scalars[i], vectors[i], 1)
         IN IF ~r.ok THEN Panic
            ELSE CombineLoop(r.val, vectors, scalars, i + 1)

\* linear_combination without its first assertion: an empty list gives the
\* zero vector.
LinearCombination_NoEmptyCheck(N, vectors, scalars) ==
    IF Len(vectors) # Len(scalars) THEN Panic
    ELSE CombineLoop([k \in 1..N |-> Default], vectors, scalars, 1)

\* linear_combination::<T, N>
LinearCombination(N, vectors, scalars) ==
    IF vectors = <<>> THEN Panic
    ELSE IF Len(vectors) # Len(scalars) THEN Panic
    ELSE CombineLoop([k \in 1..N |-> Default], vectors, scalars, 1)

(***************************************************************************)
(* The caller's program.                                                   *)
(***************************************************************************)
SeqsUpTo(S, n) == UNION {[1..k -> S] : k \in 0..n}

\* The list arguments of n vectors: u and v in turn (u alone when v is not
\* of u's type).
VectorList(n) ==
    [k \in 1..n |-> IF k % 2 = 0 /\ Len(v) = Len(u) THEN v ELSE u]

Idle == [op |-> "idle", ok |-> TRUE]

\* The build's overflow checks act on integer arithmetic only.
Init ==
    /\ T \in ElemTypes
    /\ overflow_checks \in IF T = "i8" THEN BOOLEAN ELSE {FALSE}
    /\ \E n \in Dims : \E m \in {n, CROSS_DIM} :
          /\ u \in Vectors(n)
          /\ v \in Vectors(m)
    /\ outcome = Idle

\* The caller is between two calls.
Running == outcome = Idle

\* The caller is done with the value the last call returned and goes on.
Continue ==
    /\ outcome.ok
    /\ outcome.op # "idle"
    /\ outcome' = Idle
    /\ UNCHANGED <<T, overflow_checks, u, v>>

\* let u = Vector::from(data)
Construct ==
    /\ Running
    /\ \E data \in Vectors(Len(u)) :
          LET r == New(data) IN
          /\ u' = r.val
          /\ outcome' = [op |-> "new", ok |-> r.ok, val |-> r.val, data |-> data]
    /\ UNCHANGED <<T, overflow_checks, v>>

\* let v = u  (Vector is Copy)
CopyVector ==
    /\ Running
    /\ Len(v) = Len(u)
    /\ v' = u
    /\ outcome' = [op |-> "copy", ok |-> TRUE, val |-> u, self |-> u]
    /\ UNCHANGED <<T, overflow_checks, u>>

\* u[i]
IndexRead ==
    /\ Running
    /\ \E i \in 0..(Len(u) + 1) :
          LET r == Index(u, i) IN
          outcome' = [op |-> "index", ok |-> r.ok, val |-> r.val,
                      self |-> u, i |-> i]
    /\ UNCHANGED <<T, overflow_checks, u, v>>

\* u[i] = x
IndexWrite ==
    /\ Running
    /\ \E i \in 0..(Len(u) + 1) : \E x \in Elems :
          LET r == IndexMut(u, i, x) IN
          /\ u' = IF r.ok THEN r.val ELSE u
          /\ outcome' = [op |-> "index_mut", ok |-> r.ok, val |-> r.val,
                         self |-> u, i |-> i, x |-> x]
    /\ UNCHANGED <<T, overflow_checks, v>>

\* format!("{}", u)
Display ==
    /\ Running
    /\ LET r == Fmt(u) IN
       outcome' = [op |-> "fmt", ok |-> r.ok, val |-> r.val, self |-> u]
    /\ UNCHANGED <<T, overflow_checks, u, v>>

\* u == v
Equality ==
    /\ Running
    /\ Len(v) = Len(u)
    /\ LET r == Eq(u, v) IN
       outcome' = [op |-> "eq", ok |-> r.ok, val |-> r.val,
                   self |-> u, other |-> v]
    /\ UNCHANGED <<T, overflow_checks, u, v>>

\* u + v
Addition ==
    /\ Running
    /\ Len(v) = Len(u)
    /\ LET r == Add(u, v) IN
       outcome' = [op |-> "add", ok |-> r.ok, val |-> r.val,
                   self |-> u, other |-> v]
    /\ UNCHANGED <<T, overflow_checks, u, v>>

\* u - v
Subtraction ==
    /\ Running
    /\ Len(v) = Len(u)
    /\ LET r == Sub(u, v) IN
       outcome' = [op |-> "sub", ok |-> r.ok, val |-> r.val,
                   self |-> u, other |-> v]
    /\ UNCHANGED <<T, overflow_checks, u, v>>

\* u * scalar
ScalarMultiply ==
    /\ Running
    /\ \E scalar \in Scalars :
          LET r == Mul(u, scalar) IN
          outcome' = [op |-> "mul", ok |-> r.ok, val |-> r.val,
                      self |-> u, scalar |-> scalar]
    /\ UNCHANGED <<T, overflow_checks, u, v>>

\* u.dot(&v)
DotProduct ==
    /\ Running
    /\ Len(v) = Len(u)
    /\ LET r == Dot(u, v) IN
       outcome' = [op |-> "dot", ok |-> r.ok, val |-> r.val,
                   self |-> u, other |-> v]
    /\ UNCHANGED <<T, overflow_checks, u, v>>

\* u.norm_1()
NormOne ==
    /\ Running
    /\ LET r == Norm1(u) IN
       outcome' = [op |-> "norm_1", ok |-> r.ok, val |-> r.val, self |-> u]
    /\ UNCHANGED <<T, overflow_checks, u, v>>

\* u.norm()
NormTwo ==
    /\ Running
    /\ LET r == Norm(u) IN
       outcome' = [op |-> "norm", ok |-> r.ok, val |-> r.val, self |-> u]
    /\ UNCHANGED <<T, overflow_checks, u, v>>

\* u.norm_inf()
NormMax ==
    /\ Running
    /\ LET r == NormInf(u) IN
       outcome' = [op |-> "norm_inf", ok |-> r.ok, val |-> r.val, self |-> u]
    /\ UNCHANGED <<T, overflow_checks, u, v>>

\* u.cosine(&v)
CosineSimilarity ==
    /\ Running
    /\ Len(v) = Len(u)
    /\ LET r == Cosine(u, v) IN
       outcome' = [op |-> "cosine", ok |-> r.ok, val |-> r.val,
                   self |-> u, other |-> v]
    /\ UNCHANGED <<T, overflow_checks, u, v>>

\* u.cross(&v): the method is declared on Vector<T, N> for every N, and
\* only its argument and its result are Vector<T, 3>.
CrossProduct ==
    /\ Running
    /\ Len(v) = CROSS_DIM
    /\ LET r == Cross(u, v) IN
       outcome' = [op |-> "cross", ok |-> r.ok, val |-> r.val,
                   self |-> u, other |-> v]
    /\ UNCHANGED <<T, overflow_checks, u, v>>

\* lerp(u, v, t): Vector<T, N> is Mul<f32> only for T = f32.
Interpolate ==
    /\ Running
    /\ T = "f32"
    /\ Len(v) = Len(u)
    /\ \E t \in LerpFactors :
          LET r == Lerp(u, v, t) IN
          outcome' = [op |-> "lerp", ok |-> r.ok, val |-> r.val,
                      self |-> u, other |-> v, t |-> t]
    /\ UNCHANGED <<T, overflow_checks, u, v>>

\* linear_combination(&vectors, &scalars)
Combine ==
    /\ Running
    /\ \E n \in 0..MaxLen : \E scalars \in SeqsUpTo(Scalars, MaxLen) :
          LET vectors == VectorList(n)
              r == LinearCombination(Len(u), vectors, scalars)
          IN
          outcome' = [op |-> "linear_combination", ok |-> r.ok, val |-> r.val,
                      vectors |-> vectors, scalars |-> scalars]
    /\ UNCHANGED <<T, overflow_checks, u, v>>

Next ==
    \/ Construct
    \/ CopyVector
    \/ IndexRead
    \/ IndexWrite
    \/ Display
    \/ Equality
    \/ Addition
    \/ Subtraction
    \/ ScalarMultiply
    \/ DotProduct
    \/ NormOne
    \/ NormTwo
    \/ NormMax
    \/ CosineSimilarity
    \/ CrossProduct
    \/ Interpolate
    \/ Combine
    \/ Continue

Spec == Init /\ [][Next]_vars

(***************************************************************************)
(* Vocabulary of the properties: the element type's operations as          *)
(* mathematics states them (the exact integer result reduced to the width  *)
(* of i8, the correctly rounded result for f32).                           *)
(***************************************************************************)
ElemAdd(x, y) == IF T = "i8" THEN Wrap(x + y) ELSE FAdd(x, y)
ElemSub(x, y) == IF T = "i8" THEN Wrap(x - y) ELSE FSub(x, y)
ElemMul(x, y) == IF T = "i8" THEN Wrap(x * y) ELSE FMul(x, y)
\* |x| as an f32
Magnitude(x) == IF T = "i8" THEN FFromInt(Abs(x)) ELSE FAbs(x)
ZeroVector(n) == [k \in 1..n |-> Default]
InvalidCombination(vectors, scalars) ==
    vectors = <<>> \/ Len(vectors) # Len(scalars)

\* ----------------------------------------------------------------------
\* C1: for a vector of dimension N, a read or a write at an index i >= N
\* panics and neither returns nor stores anything; at an index i < N the
\* read returns element i and the write replaces element i.
C1_IndexContract ==
    outcome.op \in {"index", "index_mut"} =>
        LET self == outcome.self
            i == outcome.i
        IN /\ i >= Len(self) => ~outcome.ok /\ u = self
           /\ (i < Len(self) /\ outcome.op = "index") =>
                 outcome.ok /\ outcome.val = self[i + 1] /\ u = self
           /\ (i < Len(self) /\ outcome.op = "index_mut") =>
                 outcome.ok /\ u = [self EXCEPT ![i + 1] = outcome.x]

\* A write at i == N, on a vector that has elements, has panicked.
C1_Witness ==
    /\ outcome.op = "index_mut"
    /\ Len(outcome.self) > 0
    /\ outcome.i = Len(outcome.self)
    /\ ~outcome.ok

\* ----------------------------------------------------------------------
\* The exact sum of the first i terms scalars[k] * vectors[k][j] (i8).
RECURSIVE ExactPartialSum(_, _, _, _)
ExactPartialSum(vectors, scalars, j, i) ==
    IF i = 0 THEN 0
    ELSE ExactPartialSum(vectors, scalars, j, i - 1)
         + scalars[i] * vectors[i][j]

Representable(n) == n >= MinT /\ n <= MaxT

\* Some product or some partial sum of the combination leaves the range
\* of i8.
CombinationOverflows(vectors, scalars) ==
    /\ T = "i8"
    /\ \E i \in 1..Len(vectors) : \E j \in 1..Len(vectors[i]) :
          \/ ~Representable(scalars[i] * vectors[i][j])
          \/ ~Representable(ExactPartialSum(vectors, scalars, j, i))

RECURSIVE WeightedSum(_, _, _, _)
WeightedSum(vectors, scalars, j, i) ==
    IF i = 0 THEN Default
    ELSE ElemAdd(WeightedSum(vectors, scalars, j, i - 1),
                 ElemMul(scalars[i], vectors[i][j]))

\* C3: a linear_combination of k >= 1 vectors of dimension N and k scalars
\* that returns, returns the vector whose element j is the sum over i of
\* scalars[i] * vectors[i][j] accumulated from the zero vector; so
\* linear_combination([w], [1]) == w and
\* linear_combination([w1, w2], [1, 1]) == w1 + w2.
C3_WeightedSum ==
    (outcome.op = "linear_combination" /\ outcome.ok) =>
        LET vectors == outcome.vectors
            scalars == outcome.scalars
            k == Len(vectors)
            N == Len(vectors[1])
        IN /\ Len(outcome.val) = N
           /\ \A j \in 1..N :
                 outcome.val[j] = WeightedSum(vectors, scalars, j, k)
           /\ scalars = <<Lit(1)>> => outcome.val = vectors[1]
           /\ scalars = <<Lit(1), Lit(1)>> =>
                 LET sum == Add(vectors[1], vectors[2])
                 IN sum.ok /\ outcome.val = sum.val

\* Two different vectors of dimension 3 were combined with two different
\* scalars.
C3_Witness ==
    /\ outcome.op = "linear_combination"
    /\ outcome.ok
    /\ Len(outcome.vectors) = 2
    /\ Len(outcome.vectors[1]) = CROSS_DIM
    /\ outcome.vectors[1] # outcome.vectors[2]
    /\ outcome.scalars[1] # outcome.scalars[2]
    /\ outcome.val # ZeroVector(CROSS_DIM)

\* ----------------------------------------------------------------------
\* The exact result of the element operation of the call at element i (i8).
ExactElement(i) ==
    CASE outcome.op = "add" -> outcome.self[i] + outcome.other[i]
      [] outcome.op = "sub" -> outcome.self[i] - outcome.other[i]
      [] outcome.op = "mul" -> outcome.self[i] * outcome.scalar

\* C4: a + b, a - b and a * s are the vectors of the operands' dimension N
\* whose element i is a[i] + b[i], a[i] - b[i] and a[i] * s in the element
\* type's arithmetic: the call returns that vector, and it panics exactly
\* when one of these element operations does (an integer overflow in a
\* build that checks it).
C4_Elementwise ==
    outcome.op \in {"add", "sub", "mul"} =>
        LET a == outcome.self
            r == outcome.val
        IN /\ outcome.ok <=>
                 ~(/\ T = "i8" /\ overflow_checks
                   /\ \E i \in 1..Len(a) : ~Representable(ExactElement(i)))
           /\ outcome.ok =>
                 /\ Len(r) = Len(a)
                 /\ \A i \in 1..Len(a) :
                       r[i] = CASE outcome.op = "add" ->
                                     ElemAdd(a[i], outcome.other[i])
                                [] outcome.op = "sub" ->
                                     ElemSub(a[i], outcome.other[i])
                                [] outcome.op = "mul" ->
                                     ElemMul(a[i], outcome.scalar)

\* Two different vectors of dimension 3 were subtracted.
C4_Witness ==
    /\ outcome.op = "sub"
    /\ outcome.ok
    /\ Len(outcome.self) = CROSS_DIM
    /\ outcome.self # outcome.other
    /\ outcome.val[1] # outcome.val[CROSS_DIM]

\* ----------------------------------------------------------------------
\* Whenever both sides return, they are equal vectors.
SameVector(l, r) == (l.ok /\ r.ok) => Eq(l.val, r.val).val

\* x + y for two results
AddResults(x, y) == IF x.ok /\ y.ok THEN Add(x.val, y.val) ELSE Panic

Commutes(a, b) == SameVector(Add(a, b), Add(b, a))
Associates(a, b, c) ==
    SameVector(AddResults(Add(a, b), Ret(c)), AddResults(Ret(a), Add(b, c)))
Cancels(a) ==
    SameVector(AddResults(Ret(a), Mul(a, Lit(-1))), Ret(ZeroVector(Len(a))))

C6_CrossOnlyOnDimension3 ==
    outcome.op = "cross" =>
        Len(outcome.self) = CROSS_DIM /\ Len(outcome.other) = CROSS_DIM

\* ----------------------------------------------------------------------
\* The element x is an integer of magnitude at most 2^7, and IntOf(x) is it.
IsSmallInt(x) ==
    \/ T = "i8"
    \/ /\ x.e \in 0..(I8_BITS - 1)
       /\ Abs(x.m) * 2^x.e <= 2^(I8_BITS - 1)
IntOf(x) == IF T = "i8" THEN x ELSE x.m * 2^x.e

\* The cross product of two vectors of small integers, in the integers.
ExactCross(a, b) ==
    LET x == [k \in 1..CROSS_DIM |-> IntOf(a[k])]
        y == [k \in 1..CROSS_DIM |-> IntOf(b[k])]
    IN <<x[2] * y[3] - x[3] * y[2],
         x[3] * y[1] - x[1] * y[3],
         x[1] * y[2] - x[2] * y[1]>>

\* n is a value of T: no wrap-around and no rounding.
ExactInT(n) ==
    IF T = "i8" THEN Representable(n) ELSE Abs(n) <= 2^F32_MANTISSA_DIGITS

\* Every product and every partial sum of the dot product c . a is an f32
\* exactly.
RECURSIVE ExactDot(_, _, _)
ExactDot(c, a, k) ==
    IF k = 0 THEN 0 ELSE ExactDot(c, a, k - 1) + c[k] * IntOf(a[k])
DotIsExact(c, a) ==
    \A k \in 1..CROSS_DIM :
        /\ Abs(c[k] * IntOf(a[k])) <= 2^F32_MANTISSA_DIGITS
        /\ Abs(ExactDot(c, a, k)) <= 2^F32_MANTISSA_DIGITS

Zero32 == FFromInt(0)

\* C7 as stated: for all 3-dimensional a and b, a cross that returns is
\* [a1*b2 - a2*b1, a2*b0 - a0*b2, a0*b1 - a1*b0] and its dot products with
\* a and with b are 0.
C7_CrossIsOrthogonal ==
    (outcome.op = "cross" /\ Len(outcome.self) = CROSS_DIM /\ outcome.ok) =>
        LET a == outcome.self
            b == outcome.other
            c == outcome.val
        IN /\ c = <<ElemSub(ElemMul(a[2], b[3]), ElemMul(a[3], b[2])),
                    ElemSub(ElemMul(a[3], b[1]), ElemMul(a[1], b[3])),
                    ElemSub(ElemMul(a[1], b[2]), ElemMul(a[2], b[1]))>>
           /\ Dot(c, a).val = Zero32
           /\ Dot(c, b).val = Zero32

\* The elements are small integers, every component of the exact cross
\* product is a value of the element type, and the two dot products are
\* computed without rounding.
CrossIsExact(a, b) ==
    /\ \A k \in 1..CROSS_DIM : IsSmallInt(a[k]) /\ IsSmallInt(b[k])
    /\ \A k \in 1..CROSS_DIM : ExactInT(ExactCross(a, b)[k])
    /\ DotIsExact(ExactCross(a, b), a)
    /\ DotIsExact(ExactCross(a, b), b)

\* C7, amended: for all 3-dimensional a and b such that every component
\* a_i*b_j - a_j*b_i is, as an exact number, a value of the element type
\* (no integer wrap-around, no rounding) and the products and partial sums
\* of the two dot products are exact in f32, a cross that returns is
\* [a1*b2 - a2*b1, a2*b0 - a0*b2, a0*b1 - a1*b0] and its dot products with
\* a and with b are 0.
C7_ExactCrossIsOrthogonal ==
    (/\ outcome.op = "cross" /\ Len(outcome.self) = CROSS_DIM /\ outcome.ok
     /\ CrossIsExact(outcome.self, outcome.other)) =>
        LET a == outcome.self
            b == outcome.other
            c == outcome.val
        IN /\ c = [k \in 1..CROSS_DIM |-> Lit(ExactCross(a, b)[k])]
           /\ c = <<ElemSub(ElemMul(a[2], b[3]), ElemMul(a[3], b[2])),
                    ElemSub(ElemMul(a[3], b[1]), ElemMul(a[1], b[3])),
                    ElemSub(ElemMul(a[1], b[2]), ElemMul(a[2], b[1]))>>
           /\ Dot(c, a).val = Zero32
           /\ Dot(c, b).val = Zero32

\* An exact cross product that is not the zero vector has been returned.
C7_Witness ==
    /\ outcome.op = "cross"
    /\ outcome.ok
    /\ Len(outcome.self) = CROSS_DIM
    /\ CrossIsExact(outcome.self, outcome.other)
    /\ outcome.val # ZeroVector(CROSS_DIM)

\* ----------------------------------------------------------------------
RECURSIVE MagnitudeSum(_, _)
MagnitudeSum(a, k) ==
    IF k = 0 THEN Zero32 ELSE FAdd(MagnitudeSum(a, k - 1), Magnitude(a[k]))

RECURSIVE MagnitudeMax(_, _)
MagnitudeMax(a, k) ==
    IF k = 0 THEN Zero32 ELSE FMax(MagnitudeMax(a, k - 1), Magnitude(a[k]))

\* C8 as stated: over the whole range of the element type, its minimum
\* included, norm_1 returns the sum of the |a[i]| and norm_inf returns the
\* greatest of the |a[i]|, and neither result is negative.
C8_NormsOfMagnitudes ==
    /\ outcome.op = "norm_1" =>
          /\ outcome.ok
          /\ outcome.val = MagnitudeSum(outcome.self, Len(outcome.self))
          /\ outcome.val.m >= 0
    /\ outcome.op = "norm_inf" =>
          /\ outcome.ok
          /\ outcome.val = MagnitudeMax(outcome.self, Len(outcome.self))
          /\ outcome.val.m >= 0

\* ----------------------------------------------------------------------
\* C9 as stated: a call panics only on an index out of range (read or
\* write) and on an invalid linear_combination input; every other call
\* returns a value.
C9_OnlyTwoFatalClasses ==
    ~outcome.ok =>
        \/ /\ outcome.op \in {"index", "index_mut"}
           /\ outcome.i >= Len(outcome.self)
        \/ /\ outcome.op = "linear_combination"
           /\ InvalidCombination(outcome.vectors, outcome.scalars)

\* ----------------------------------------------------------------------
\* C10: no step changes the number of elements of a vector; an addition,
\* a subtraction, a scalar multiplication and a linear combination return
\* a vector of the operands' dimension and leave every vector as it was; a
\* copy is the value copied and leaves the original as it was; and a write
\* v[i] = x with i < N changes element i of the vector written and nothing
\* else: not its other elements, not the copy taken before, not the
\* operand recorded before the write.
C10_ValueSemantics ==
    [][/\ Len(u') = Len(u)
       /\ Len(v') = Len(v)
       /\ (outcome'.op \in {"add", "sub", "mul"} /\ outcome'.ok) =>
             /\ Len(outcome'.val) = Len(u)
             /\ u' = u /\ v' = v /\ outcome'.self = u
       /\ (outcome'.op = "linear_combination" /\ outcome'.ok) =>
             /\ Len(outcome'.val) = Len(u)
             /\ u' = u /\ v' = v
             /\ \A k \in 1..Len(outcome'.vectors) :
                   outcome'.vectors[k] \in {u, v}
       /\ outcome'.op = "copy" => u' = u /\ v' = u
       /\ (outcome'.op = "index_mut" /\ outcome'.ok) =>
             /\ v' = v
             /\ outcome'.self = u
             /\ u'[outcome'.i + 1] = outcome'.x
             /\ \A k \in 1..Len(u) : k # outcome'.i + 1 => u'[k] = u[k]
      ]_vars

\* A vector of dimension 3 was copied into v and then written at an index
\* in range: it differs from the copy.
C10_Witness ==
    /\ outcome.op = "index_mut"
    /\ outcome.ok
    /\ Len(u) = CROSS_DIM
    /\ v = outcome.self
    /\ u # v

====
